---- MODULE Spec2Model ----
(***************************************************************************)
(* Model of the file-versioning and row-diff engine of the Turismo Zahr    *)
(* bot: FileManager (src/file_manager.py) and the cycle that drives it     *)
(* (src/main.py).                                                          *)
(*                                                                         *)
(* A file's content is its text: a sequence of lines, a line a sequence of *)
(* tokens.  A token is one character of a data line (a digit, a letter,    *)
(* the semicolon, the comma, the double quote) or one whole column name of *)
(* a header line.  No token is a prefix of another, so Python's string     *)
(* order on fields is the lexicographic order on token sequences by Rank.  *)
(* An MD5 digest is modelled by the byte string it is computed from (MD5   *)
(* is taken to be injective on the texts of the model).                    *)
(***************************************************************************)
EXTENDS Integers, Sequences, FiniteSets, TLC

\* ------------------------------------------------------------------------
\* Text layer: csv.reader, csv.writer, list.index, list.pop, list.sort
\* ------------------------------------------------------------------------

IdCol == "IdVentaNegocioDetalle"
ItemCol == "Item"
NameCol == "Nombre"
Semi == ";"
Comma == ","
Quote == "\""

\* The order of the tokens: the ranks follow the order in which Python
\* compares the strings they stand for (str is compared by code point).
Rank(tok) ==
    CASE tok = Quote -> 34
      [] tok = Comma -> 44
      [] tok = "1" -> 49
      [] tok = "2" -> 50
      [] tok = "3" -> 51
      [] tok = Semi -> 59
      [] tok = IdCol -> 73
      [] tok = ItemCol -> 74
      [] tok = NameCol -> 78
      [] tok = "x" -> 120
      [] tok = "y" -> 121
      [] OTHER -> 127

\* str < str
RECURSIVE StrLess(_, _)
StrLess(a, b) ==
    IF b = <<>> THEN FALSE
    ELSE IF a = <<>> THEN TRUE
    ELSE IF Rank(Head(a)) # Rank(Head(b)) THEN Rank(Head(a)) < Rank(Head(b))
    ELSE StrLess(Tail(a), Tail(b))

\* list[str] < list[str]
RECURSIVE RowLess(_, _)
RowLess(r, s) ==
    IF s = <<>> THEN FALSE
    ELSE IF r = <<>> THEN TRUE
    ELSE IF Head(r) # Head(s) THEN StrLess(Head(r), Head(s))
    ELSE RowLess(Tail(r), Tail(s))

\* One line split at the delimiter d (no quoting occurs in the texts read).
RECURSIVE SplitBy(_, _)
SplitBy(line, d) ==
    IF line = <<>> THEN << <<>> >>
    ELSE IF Head(line) = d THEN << <<>> >> \o SplitBy(Tail(line), d)
    ELSE LET rest == SplitBy(Tail(line), d)
         IN  << <<Head(line)>> \o Head(rest) >> \o Tail(rest)

\* csv.reader(f, delimiter=d): a blank line is the empty row.
csv_reader(text, d) ==
    [i \in 1..Len(text) |-> IF text[i] = <<>> THEN <<>> ELSE SplitBy(text[i], d)]

RECURSIVE Join(_, _)
Join(fields, d) ==
    IF fields = <<>> THEN <<>>
    ELSE IF Len(fields) = 1 THEN Head(fields)
    ELSE Head(fields) \o <<d>> \o Join(Tail(fields), d)

\* csv.writer(..., delimiter=d, lineterminator='\n').writerow(fields), minimal
\* quoting: a row of one empty field is written as "".
writerow(fields, d) ==
    IF fields = << <<>> >> THEN <<Quote, Quote>> ELSE Join(fields, d)

\* csv.writer(..., quoting=csv.QUOTE_ALL).writerow(fields)
writerow_quoted(fields, d) ==
    Join([i \in 1..Len(fields) |-> <<Quote>> \o fields[i] \o <<Quote>>], d)

\* header.index(col): the first position of the column, 0 for ValueError.
index(header, col) ==
    IF \E i \in 1..Len(header) : header[i] = <<col>>
    THEN CHOOSE i \in 1..Len(header) :
            /\ header[i] = <<col>>
            /\ \A j \in 1..(i - 1) : header[j] # <<col>>
    ELSE 0

\* row.pop(i), i a position 1..Len(row)
pop(row, i) == SubSeq(row, 1, i - 1) \o SubSeq(row, i + 1, Len(row))

\* data.sort(): insertion sort by RowLess (equal rows are equal values).
RECURSIVE Insert(_, _)
Insert(r, sorted) ==
    IF sorted = <<>> THEN <<r>>
    ELSE IF RowLess(r, Head(sorted)) THEN <<r>> \o sorted
    ELSE <<Head(sorted)>> \o Insert(r, Tail(sorted))

RECURSIVE sort(_)
sort(rows) ==
    IF rows = <<>> THEN <<>> ELSE Insert(Head(rows), sort(Tail(rows)))

\* ------------------------------------------------------------------------
\* FileManager.calculate_sorted_md5
\* ------------------------------------------------------------------------

\* The lines of the sample that calculate_sorted_md5 hands to csv.Sniffer:
\* f.read(1024) reads the head of the file only.  The model scales the 1024
\* characters down to SampleLines whole lines.
SampleLines == 2

sample(text) == SubSeq(text, 1, IF Len(text) < SampleLines THEN Len(text) ELSE SampleLines)

Count(line, tok) == Cardinality({i \in 1..Len(line) : line[i] = tok})

\* csv.Sniffer().sniff(sample).delimiter, with the fallback of the except
\* branch.  On a sample of at most ten lines the Sniffer's candidates are the
\* characters that occur the same positive number of times on every non-blank
\* line; among several it takes the first of , \t ; space : that is one.  In
\* the texts of the model only the comma and the semicolon can be candidates
\* (a data character never occurs in a header line, nor a column name in a
\* data line, and every header holds a semicolon), and without a candidate
\* sniff raises and the delimiter is the semicolon.
sniff_delimiter(smp) ==
    LET lines == SelectSeq(smp, LAMBDA l : l # <<>>)
    IN  IF /\ lines # <<>>
           /\ Count(lines[1], Comma) > 0
           /\ \A i \in 1..Len(lines) : Count(lines[i], Comma) = Count(lines[1], Comma)
        THEN Comma
        ELSE Semi

\* The digest of a file's text: the bytes that are hashed (the empty text for
\* md5(b"")).
calculate_sorted_md5(text) ==
    LET delimiter == sniff_delimiter(sample(text))
        rows == csv_reader(text, delimiter)
    IN  IF rows = <<>> THEN <<>>
        ELSE
          LET header == rows[1]
              data == Tail(rows)
              item_idx == index(header, ItemCol)
              header2 == IF item_idx # 0 THEN pop(header, item_idx) ELSE header
              data2 == IF item_idx # 0
                       THEN [i \in 1..Len(data) |->
                               IF Len(data[i]) >= item_idx
                               THEN pop(data[i], item_idx)
                               ELSE data[i]]
                       ELSE data
              sorted == sort(data2)
          IN  <<writerow(header2, delimiter)>>
              \o [i \in 1..Len(sorted) |-> writerow(sorted[i], delimiter)]

\* ------------------------------------------------------------------------
\* The working directory "ReporteSabana"
\* ------------------------------------------------------------------------

\* The clock: time.strftime("%Y%m%d_%H%M%S") yields the current second, one
\* of 1..MaxTime.
MaxTime == 2

\* File names, <<kind, second>> (second 0: a name without timestamp):
\*   canon    ReporteSabana.csv             temp     download_temp.csv
\*   bak      ReporteSabana_<ts>.csv        err      ReporteSabana_ERR_<ts>.csv
\*   diff     ReporteSabana_Diff.csv        del      ReporteSabana_Del.csv
\*   diffbak  ReporteSabana_Diff_<ts>.csv   delbak   ReporteSabana_Del_<ts>.csv
\*   differr  ReporteSabana_Diff_ERR_<ts>.csv
\*   delerr   ReporteSabana_Del_ERR_<ts>.csv
TARGET_FILENAME == <<"canon", 0>>
TEMP_FILENAME == <<"temp", 0>>
DiffName == <<"diff", 0>>
DelName == <<"del", 0>>

\* f"{name}_{timestamp}{ext}" for the file called n
backup_name(n, t) ==
    CASE n[1] = "canon" -> <<"bak", t>>
      [] n[1] = "diff" -> <<"diffbak", t>>
      [] n[1] = "del" -> <<"delbak", t>>

\* f"{name}_ERR_{timestamp}{ext}" for the file called n
error_name(n, t) ==
    CASE n[1] = "canon" -> <<"err", t>>
      [] n[1] = "diff" -> <<"differr", t>>
      [] n[1] = "del" -> <<"delerr", t>>

\* A directory value: f maps the names of the files that exist to their
\* text, a lists those names from the least to the most recently modified.
EmptyDir == [f |-> [m \in {} |-> <<>>], a |-> <<>>]

exists(D, n) == n \in DOMAIN D.f

Without(seq, n) == SelectSeq(seq, LAMBDA m : m # n)

\* open(n, "w") ... write: n holds text and is the most recently modified.
write_file(D, n, text) ==
    [f |-> [m \in DOMAIN D.f \cup {n} |-> IF m = n THEN text ELSE D.f[m]],
     a |-> Append(Without(D.a, n), n)]

\* os.remove(n)
remove_file(D, n) ==
    [f |-> [m \in DOMAIN D.f \ {n} |-> D.f[m]],
     a |-> Without(D.a, n)]

\* os.rename(src, dst) and shutil.move(src, dst) inside the directory, when
\* they succeed: dst takes the text and the modification time of src; a file
\* that was at dst is replaced (POSIX rename).  Where the platform refuses to
\* rename onto an existing file (Windows), the call fails instead: the
\* callers below take that outcome from their set of faults.
\* A rename that leaves the source file where it was (a copy).
rename_file_keeps_source(D, src, dst) ==
    [f |-> [m \in DOMAIN D.f \cup {dst} |-> IF m = dst THEN D.f[src] ELSE D.f[m]],
     a |-> Append(Without(D.a, dst), dst)]

rename_file(D, src, dst) ==
    [f |-> [m \in (DOMAIN D.f \ {src}) \cup {dst} |->
               IF m = dst THEN D.f[src] ELSE D.f[m]],
     a |-> [i \in 1..Len(Without(D.a, dst)) |->
               IF Without(D.a, dst)[i] = src THEN dst ELSE Without(D.a, dst)[i]]]

\* ------------------------------------------------------------------------
\* FileManager.manage_versioning
\* ------------------------------------------------------------------------

\* The filesystem calls that may fail in one call of an operation are given
\* as a set of faults:
\*   "bak"  os.rename(final_path, backup_path) raises OSError
\*   "mv"   shutil.move(new_file_path, final_path) raises
\*   "rm"   os.remove(new_file_path) raises
\*   "rot_diff", "rot_del"  the rotation rename of _save_audit_file raises
\*   "wr_diff", "wr_del"    open(final_path, "w") of _save_audit_file raises
\*   "err_diff", "err_del"  os.rename of rename_to_error raises OSError
\*   "err_temp"             shutil.move of save_temp_as_error raises OSError

\* manage_versioning without the comparison of the digests: an existing
\* canonical file is always backed up and replaced.
manage_versioning_always_replaces(D, t, faults) ==
    IF ~exists(D, TARGET_FILENAME) THEN
        IF "mv" \in faults \/ ~exists(D, TEMP_FILENAME)
        THEN [D |-> D, out |-> "Created", raised |-> TRUE]
        ELSE [D |-> rename_file(D, TEMP_FILENAME, TARGET_FILENAME),
              out |-> "Created", raised |-> FALSE]
    ELSE IF ~exists(D, TEMP_FILENAME) THEN
        [D |-> D, out |-> "None", raised |-> TRUE]
    ELSE IF "bak" \in faults
    THEN [D |-> D, out |-> "BackupFailed", raised |-> FALSE]
    ELSE
        LET D1 == rename_file(D, TARGET_FILENAME, backup_name(TARGET_FILENAME, t)) IN
        IF "mv" \in faults
        THEN [D |-> D1, out |-> "Replaced", raised |-> TRUE]
        ELSE [D |-> rename_file(D1, TEMP_FILENAME, TARGET_FILENAME),
              out |-> "Replaced", raised |-> FALSE]

\* manage_versioning that goes on to move the new file when the rename of
\* the canonical file to its backup has failed.
manage_versioning_ignores_backup_failure(D, t, faults) ==
    IF ~exists(D, TARGET_FILENAME) THEN
        IF "mv" \in faults \/ ~exists(D, TEMP_FILENAME)
        THEN [D |-> D, out |-> "Created", raised |-> TRUE]
        ELSE [D |-> rename_file(D, TEMP_FILENAME, TARGET_FILENAME),
              out |-> "Created", raised |-> FALSE]
    ELSE IF ~exists(D, TEMP_FILENAME) THEN
        [D |-> D, out |-> "None", raised |-> TRUE]
    ELSE IF calculate_sorted_md5(D.f[TEMP_FILENAME])
                = calculate_sorted_md5(D.f[TARGET_FILENAME]) THEN
        IF "rm" \in faults
        THEN [D |-> D, out |-> "DiscardedIdentical", raised |-> TRUE]
        ELSE [D |-> remove_file(D, TEMP_FILENAME),
              out |-> "DiscardedIdentical", raised |-> FALSE]
    ELSE
        LET D1 == IF "bak" \in faults THEN D
                  ELSE rename_file(D, TARGET_FILENAME, backup_name(TARGET_FILENAME, t))
        IN  IF "mv" \in faults
            THEN [D |-> D1, out |-> "Replaced", raised |-> TRUE]
            ELSE [D |-> rename_file(D1, TEMP_FILENAME, TARGET_FILENAME),
                  out |-> "Replaced", raised |-> FALSE]

\* manage_versioning(new_file_path = TEMP_FILENAME, ..., TARGET_FILENAME) at
\* second t.  The result holds the directory after the call, the branch taken
\* (out) and whether the call raised.
\*   out: "Created", "DiscardedIdentical", "Replaced", "BackupFailed"
manage_versioning(D, t, faults) ==
    LET final_path == TARGET_FILENAME
        new_file_path == TEMP_FILENAME
    IN
    IF ~exists(D, final_path) THEN
        IF "mv" \in faults \/ ~exists(D, new_file_path)
        THEN [D |-> D, out |-> "Created", raised |-> TRUE]
        ELSE [D |-> rename_file(D, new_file_path, final_path),
              out |-> "Created", raised |-> FALSE]
    ELSE IF ~exists(D, new_file_path) THEN
        \* calculate_raw_md5 of the fallback raises FileNotFoundError
        [D |-> D, out |-> "None", raised |-> TRUE]
    ELSE
        LET new_md5 == calculate_sorted_md5(D.f[new_file_path])
            old_md5 == calculate_sorted_md5(D.f[final_path])
        IN
        IF new_md5 = old_md5 THEN
            IF "rm" \in faults
            THEN [D |-> D, out |-> "DiscardedIdentical", raised |-> TRUE]
            ELSE [D |-> remove_file(D, new_file_path),
                  out |-> "DiscardedIdentical", raised |-> FALSE]
        ELSE
            LET backup_path == backup_name(final_path, t) IN
            IF "bak" \in faults
            THEN [D |-> D, out |-> "BackupFailed", raised |-> FALSE]
            ELSE
                LET D1 == rename_file(D, final_path, backup_path) IN
                IF "mv" \in faults
                THEN [D |-> D1, out |-> "Replaced", raised |-> TRUE]
                ELSE [D |-> rename_file(D1, new_file_path, final_path),
                      out |-> "Replaced", raised |-> FALSE]

\* ------------------------------------------------------------------------
\* FileManager._save_audit_file and FileManager.compare_and_extract_diffs
\* ------------------------------------------------------------------------

\* The text written for an audit file: the header, then the rows, every
\* field quoted.
audit_text(rows, header) ==
    <<writerow_quoted(header, Semi)>>
    \o [i \in 1..Len(rows) |-> writerow_quoted(rows[i], Semi)]

\* _save_audit_file without its first test: an empty row list is written
\* like any other.
save_audit_file_writes_empty(D, rows, n, header, t, rot_fails, wr_fails) ==
    LET D1 == IF exists(D, n) /\ ~rot_fails
              THEN rename_file(D, n, backup_name(n, t))
              ELSE D
    IN  IF wr_fails THEN D1 ELSE write_file(D1, n, audit_text(rows, header))

\* _save_audit_file that returns when the rotation of the existing file has
\* failed.
save_audit_file_aborts_unrotated(D, rows, n, header, t, rot_fails, wr_fails) ==
    IF rows = <<>> \/ (exists(D, n) /\ rot_fails) THEN D
    ELSE
        LET D1 == IF exists(D, n) THEN rename_file(D, n, backup_name(n, t)) ELSE D
        IN  IF wr_fails THEN D1 ELSE write_file(D1, n, audit_text(rows, header))

\* _save_audit_file(rows, target_dir, base_filename = n, header) at second t;
\* rot_fails: the rotation rename raises OSError, wr_fails: open(..., "w")
\* raises.  The directory after the call.
save_audit_file(D, rows, n, header, t, rot_fails, wr_fails) ==
    IF rows = <<>> THEN D
    ELSE
        LET D1 == IF exists(D, n) /\ ~rot_fails
                  THEN rename_file(D, n, backup_name(n, t))
                  ELSE D
        IN  IF wr_fails THEN D1 ELSE write_file(D1, n, audit_text(rows, header))

\* The dict old_rows as the sequence of its items, in insertion order.
dict_has(d, k) == \E i \in 1..Len(d) : d[i].k = k

dict_get(d, k) == d[CHOOSE i \in 1..Len(d) : d[i].k = k].v

\* dict_set that moves an identity set again to the end of the dict.
dict_set_reinserts(d, k, v) ==
    Append(SelectSeq(d, LAMBDA e : e.k # k), [k |-> k, v |-> v])

dict_set(d, k, v) ==
    IF dict_has(d, k)
    THEN [i \in 1..Len(d) |-> IF d[i].k = k THEN [k |-> k, v |-> v] ELSE d[i]]
    ELSE Append(d, [k |-> k, v |-> v])

\* for row in reader: if len(row) > id_idx: old_rows[row[id_idx]] = row
RECURSIVE load_old_rows(_, _, _)
load_old_rows(rows, id_idx, old_rows) ==
    IF rows = <<>> THEN old_rows
    ELSE LET row == Head(rows) IN
         load_old_rows(Tail(rows), id_idx,
                       IF Len(row) >= id_idx
                       THEN dict_set(old_rows, row[id_idx], row)
                       ELSE old_rows)

\* The comparison without the removal of the "Item" field.
row_differs_with_item(row, old_row, item_idx) == row # old_row

\* The comparison with the "Item" field popped from the new row only.
row_differs_pops_new_only(row, old_row, item_idx) ==
    (IF item_idx # 0 /\ Len(row) >= item_idx THEN pop(row, item_idx) ELSE row)
        # old_row

\* The comparison of a new row with the old row of the same identity, the
\* "Item" field popped from both where the row is long enough.
row_differs(row, old_row, item_idx) ==
    LET row_to_compare == IF item_idx # 0 /\ Len(row) >= item_idx
                          THEN pop(row, item_idx) ELSE row
        old_row_to_compare == IF item_idx # 0 /\ Len(old_row) >= item_idx
                              THEN pop(old_row, item_idx) ELSE old_row
    IN  row_to_compare # old_row_to_compare

\* The loop over the rows of the new file: diff_rows.
RECURSIVE scan_new_rows(_, _, _, _)
scan_new_rows(rows, new_id_idx, item_idx, old_rows) ==
    IF rows = <<>> THEN <<>>
    ELSE LET row == Head(rows)
             rest == scan_new_rows(Tail(rows), new_id_idx, item_idx, old_rows)
         IN  IF Len(row) < new_id_idx THEN rest
             ELSE IF ~dict_has(old_rows, row[new_id_idx]) THEN <<row>> \o rest
             ELSE IF row_differs(row, dict_get(old_rows, row[new_id_idx]), item_idx)
                  THEN <<row>> \o rest
                  ELSE rest

\* seen_ids
seen_ids_of(rows, new_id_idx) ==
    {rows[i][new_id_idx] : i \in {j \in 1..Len(rows) : Len(rows[j]) >= new_id_idx}}

\* for old_id, old_row in old_rows.items(): if old_id not in seen_ids: ...
deleted_rows(old_rows, seen_ids) ==
    LET kept == SelectSeq(old_rows, LAMBDA e : e.k \notin seen_ids)
    IN  [i \in 1..Len(kept) |-> kept[i].v]

NoDiff(D) == [D |-> D, diff |-> FALSE, del |-> FALSE,
              diff_rows |-> <<>>, del_rows |-> <<>>, compared |-> FALSE]

\* compare_and_extract_diffs(new_file_path = TEMP_FILENAME, ...) at second t.
\* diff and del say whether paths['diff'] and paths['del'] are returned;
\* compared says whether the comparison loop ran.
compare_and_extract_diffs(D, t, faults) ==
    LET final_path == TARGET_FILENAME
        new_file_path == TEMP_FILENAME
    IN
    IF ~exists(D, final_path) THEN NoDiff(D)
    ELSE
      LET old == csv_reader(D.f[final_path], Semi) IN
      IF old = <<>> THEN NoDiff(D)
      ELSE
        LET header == old[1]
            id_idx == index(header, IdCol)
        IN
        IF id_idx = 0 THEN NoDiff(D)
        ELSE IF ~exists(D, new_file_path) THEN NoDiff(D)
        ELSE
          LET old_rows == load_old_rows(Tail(old), id_idx, <<>>)
              new == csv_reader(D.f[new_file_path], Semi)
          IN
          IF new = <<>> THEN NoDiff(D)
          ELSE
            LET new_header == new[1]
                new_id_idx == index(new_header, IdCol)
                item_idx == index(new_header, ItemCol)
            IN
            IF new_id_idx = 0 THEN NoDiff(D)
            ELSE
              LET diff_rows == scan_new_rows(Tail(new), new_id_idx, item_idx, old_rows)
                  del_rows == deleted_rows(old_rows, seen_ids_of(Tail(new), new_id_idx))
                  D1 == save_audit_file(D, diff_rows, DiffName, header, t,
                                        "rot_diff" \in faults, "wr_diff" \in faults)
                  D2 == save_audit_file(D1, del_rows, DelName, header, t,
                                        "rot_del" \in faults, "wr_del" \in faults)
              IN  [D |-> D2, diff |-> diff_rows # <<>>, del |-> del_rows # <<>>,
                   diff_rows |-> diff_rows, del_rows |-> del_rows, compared |-> TRUE]

\* ------------------------------------------------------------------------
\* FileManager.rename_to_error and FileManager.save_temp_as_error
\* ------------------------------------------------------------------------

\* One pass of the loop of rename_to_error over a present path.
flag_one(D, n, t, fails) ==
    IF ~exists(D, n) \/ fails THEN D ELSE rename_file(D, n, error_name(n, t))

\* rename_to_error(file_paths) at second t; file_paths holds the diff path
\* and the del path, each when present.
rename_to_error(D, has_diff, has_del, t, faults) ==
    LET D1 == IF has_diff THEN flag_one(D, DiffName, t, "err_diff" \in faults) ELSE D
    IN  IF has_del THEN flag_one(D1, DelName, t, "err_del" \in faults) ELSE D1

\* save_temp_as_error(temp_path = TEMP_FILENAME, ..., TARGET_FILENAME)
save_temp_as_error(D, t, faults) ==
    IF ~exists(D, TEMP_FILENAME) \/ "err_temp" \in faults THEN D
    ELSE rename_file(D, TEMP_FILENAME, error_name(TARGET_FILENAME, t))

\* ------------------------------------------------------------------------
\* State
\* ------------------------------------------------------------------------

VARIABLES
    fs,     \* the files of the working directory: name -> text
    age,    \* their names, from the least to the most recently modified
    now,    \* the current second
    pc,     \* the position of the caller
    call,   \* the last call of a FileManager operation and what it returned
    ever,   \* every text that has occupied the canonical path
    steps,  \* the number of operations called so far
    cycle   \* the current run_cycle: its number and what it has done so far

vars == <<fs, age, now, pc, call, ever, steps, cycle>>

Dir == [f |-> fs, a |-> age]

NoCall ==
    [op |-> "none", pre |-> EmptyDir.f, faults |-> {}, out |-> "none",
     raised |-> FALSE, diff |-> FALSE, del |-> FALSE,
     diff_rows |-> <<>>, del_rows |-> <<>>, compared |-> FALSE,
     new_md5 |-> <<>>, old_md5 |-> <<>>,
     prev_op |-> "none", prev_pre |-> EmptyDir.f, prev_out |-> "none",
     prev_raised |-> FALSE, pre_age |-> <<>>, max_files |-> 0,
     crash |-> [at |-> "none", canon |-> {}]]

\* The record of a call that follows the call c.  crash says where the
\* process was stopped inside manage_versioning, if it was, and what the
\* canonical path held before that call.
After(c, op, faults) ==
    [NoCall EXCEPT !.op = op, !.pre = fs, !.pre_age = age, !.faults = faults,
                   !.prev_op = c.op, !.prev_pre = c.pre, !.prev_out = c.out,
                   !.prev_raised = c.raised, !.crash = c.crash]

\* ciclo is the number of the cycle; canon and arts are the text of the
\* canonical file and the audit files at its start, new is the text that was
\* downloaded; diff and del say whether compare_and_extract_diffs returned a
\* path; db is what became of the update of the database; accepted and
\* quarantined say whether manage_versioning and the two _ERR operations
\* were called; swept says whether cleanup_old_files was called; result is
\* how run_cycle ended; login says whether bot.init_session() and bot.login()
\* returned True, download whether bot.download_report() was called, logout
\* whether bot.logout() was called.
NoCycle ==
    [ciclo |-> 1, canon |-> {}, arts |-> EmptyDir.f, new |-> {}, diff |-> FALSE,
     del |-> FALSE, db |-> "none", accepted |-> FALSE, quarantined |-> FALSE,
     swept |-> FALSE, result |-> "none", login |-> FALSE, download |-> FALSE,
     logout |-> FALSE]

CanonTexts(f) == IF TARGET_FILENAME \in DOMAIN f THEN {f[TARGET_FILENAME]} ELSE {}

\* The clock advances.
Tick ==
    /\ now < MaxTime
    /\ now' = now + 1
    /\ UNCHANGED <<fs, age, pc, call, ever, steps, cycle>>

\* ------------------------------------------------------------------------
\* SpecAccept: a caller hands new files to manage_versioning, one after the
\* other, in one working directory
\* ------------------------------------------------------------------------

MaxAccepts == 3

H3 == <<IdCol, Semi, ItemCol, Semi, NameCol>>
Row3(id, item, name) == <<id, Semi, item, Semi>> \o name

\* The new files of SpecAccept: three different contents, and one that
\* differs from the first in the order of its rows only.
FileA == <<H3, Row3("1", "1", <<"x">>), Row3("2", "2", <<"x">>)>>
FileAr == <<H3, Row3("2", "1", <<"x">>), Row3("1", "2", <<"x">>)>>
FileB == <<H3, Row3("1", "1", <<"y">>), Row3("2", "2", <<"x">>)>>
FileC == <<H3, Row3("1", "1", <<"y">>)>>
AcceptFiles == {FileA, FileAr, FileB, FileC}

AcceptFaults == {{}, {"bak"}, {"mv"}, {"rm"}}

InitAccept ==
    /\ fs = EmptyDir.f
    /\ age = <<>>
    /\ now = 1
    /\ pc = "idle"
    /\ call = NoCall
    /\ ever = {}
    /\ steps = 0
    /\ cycle = NoCycle

\* The caller puts a new file at the temporary path (open(..., "wb")).
Provide ==
    /\ pc = "idle"
    /\ steps < MaxAccepts
    /\ \E text \in AcceptFiles :
         LET D == write_file(Dir, TEMP_FILENAME, text)
         IN  fs' = D.f /\ age' = D.a
    /\ pc' = "new"
    /\ UNCHANGED <<now, call, ever, steps, cycle>>

\* The caller calls manage_versioning on it.
Accept ==
    /\ pc = "new"
    /\ \E faults \in AcceptFaults :
         LET r == manage_versioning(Dir, now, faults)
         IN  /\ fs' = r.D.f
             /\ age' = r.D.a
             /\ call' = [After(call, "accept", faults) EXCEPT
                            !.out = r.out, !.raised = r.raised,
                            !.new_md5 = calculate_sorted_md5(fs[TEMP_FILENAME]),
                            !.old_md5 = IF TARGET_FILENAME \in DOMAIN fs
                                        THEN calculate_sorted_md5(fs[TARGET_FILENAME])
                                        ELSE <<>>]
             /\ ever' = ever \cup CanonTexts(r.D.f)
    /\ pc' = "idle"
    /\ steps' = steps + 1
    /\ UNCHANGED <<now, cycle>>

NextAccept == Provide \/ Accept \/ Tick

SpecAccept == InitAccept /\ [][NextAccept]_vars

\* ------------------------------------------------------------------------
\* Claims checked under SpecAccept
\* ------------------------------------------------------------------------

Backups(f) == {n \in DOMAIN f : n[1] = "bak"}

\* C1: after every call of manage_versioning before which a file was at the
\* canonical path, a file is at the canonical path, whichever step failed.
C1_CanonicalPresentAfterAccept ==
    (call.op = "accept" /\ TARGET_FILENAME \in DOMAIN call.pre)
        => TARGET_FILENAME \in DOMAIN fs

\* C4: every text that has occupied the canonical path is still in the
\* directory, at the canonical path or under a timestamped backup name.
C4_SupersededContentKept ==
    \A text \in ever :
        \E n \in DOMAIN fs : n[1] \in {"canon", "bak"} /\ fs[n] = text

\* Two calls of manage_versioning in a row, the first with no file at the
\* canonical path, both with the same bytes in the new file, neither raising.
TwiceIdentical ==
    /\ call.op = "accept"
    /\ call.prev_op = "accept"
    /\ TARGET_FILENAME \notin DOMAIN call.prev_pre
    /\ TEMP_FILENAME \in DOMAIN call.prev_pre
    /\ call.pre[TEMP_FILENAME] = call.prev_pre[TEMP_FILENAME]
    /\ ~call.prev_raised
    /\ ~call.raised

\* C5: from no canonical file, two calls in a row with byte-identical new
\* files end as Created and then DiscardedIdentical; the second call creates
\* no backup and leaves the canonical text as it was.
C5_CreatedThenDiscarded ==
    TwiceIdentical =>
        /\ call.prev_out = "Created"
        /\ call.out = "DiscardedIdentical"
        /\ Backups(fs) = Backups(call.pre)
        /\ TARGET_FILENAME \in DOMAIN fs
        /\ fs[TARGET_FILENAME] = call.pre[TARGET_FILENAME]

C5_Witness ==
    /\ TwiceIdentical
    /\ call.out = "DiscardedIdentical"
    /\ call.new_md5 = call.old_md5
    /\ fs[TARGET_FILENAME] = FileA

\* C12: when the canonical file exists, the digests differ and the rename of
\* the canonical file to its backup fails, manage_versioning leaves the
\* directory as it was: the new file at the temporary path, the canonical
\* file with its content, no backup.
C12_BackupFailureAborts ==
    (/\ pc = "idle"
     /\ call.op = "accept"
     /\ "bak" \in call.faults
     /\ TARGET_FILENAME \in DOMAIN call.pre
     /\ call.new_md5 # call.old_md5)
        => /\ call.out = "BackupFailed"
           /\ ~call.raised
           /\ fs = call.pre

C12_Witness ==
    /\ pc = "idle"
    /\ call.op = "accept"
    /\ "bak" \in call.faults
    /\ call.out = "BackupFailed"
    /\ TARGET_FILENAME \in DOMAIN fs
    /\ TEMP_FILENAME \in DOMAIN fs
    /\ fs[TEMP_FILENAME] # fs[TARGET_FILENAME]
    /\ Backups(fs) = {}

\* C22: a call of manage_versioning that ends as Replaced leaves the text of
\* the new file at the canonical path, the text that was canonical before
\* the call under a timestamped backup name, and no file at the path of the
\* new file; a call that ends as Created leaves the text of the new file at
\* the canonical path, no file at the path of the new file, and the backups
\* as they were.
C22_ReplacedAndCreated ==
    (pc = "idle" /\ call.op = "accept" /\ ~call.raised)
        => /\ call.out = "Replaced" =>
                /\ TARGET_FILENAME \in DOMAIN fs
                /\ fs[TARGET_FILENAME] = call.pre[TEMP_FILENAME]
                /\ \E n \in Backups(fs) : fs[n] = call.pre[TARGET_FILENAME]
                /\ TEMP_FILENAME \notin DOMAIN fs
           /\ call.out = "Created" =>
                /\ TARGET_FILENAME \in DOMAIN fs
                /\ fs[TARGET_FILENAME] = call.pre[TEMP_FILENAME]
                /\ TEMP_FILENAME \notin DOMAIN fs
                /\ Backups(fs) = Backups(call.pre)
                /\ \A n \in Backups(fs) : fs[n] = call.pre[n]

\* A Replaced after a Created: the text of the first file in a backup, the
\* text of the second at the canonical path.
C22_Witness ==
    /\ pc = "idle"
    /\ call.op = "accept"
    /\ call.out = "Replaced"
    /\ ~call.raised
    /\ call.prev_out = "Created"
    /\ fs[TARGET_FILENAME] = FileB
    /\ \E n \in Backups(fs) : fs[n] = FileA
    /\ TEMP_FILENAME \notin DOMAIN fs

\* ------------------------------------------------------------------------
\* SpecDigest: calculate_sorted_md5 applied to a file and to a variant of it
\* ------------------------------------------------------------------------

\* The greatest number of data rows of a file of SpecDigest.
MaxRows == 2

\* A header whose last column name holds a comma ("Nombre,Nombre").
Hc == <<IdCol, Semi, ItemCol, Semi, NameCol, Comma, NameCol>>

DigestRows ==
    {Row3(id, item, name) :
        id \in {"1", "2"}, item \in {"1", "2"}, name \in {<<"x">>, <<"x", Comma, "y">>}}

SeqsUpTo(S, n) == UNION {[1..k -> S] : k \in 0..n}

DigestFiles == {<<h>> \o rows : h \in {H3, Hc}, rows \in SeqsUpTo(DigestRows, MaxRows)}

RowOrders(n) == {p \in [1..n -> 1..n] : \A i, j \in 1..n : p[i] = p[j] => i = j}

\* The file with its data rows in the order p.
Reordered(text, p) ==
    <<Head(text)>> \o [i \in 1..(Len(text) - 1) |-> Tail(text)[p[i]]]

ItemValues == {<<"1">>, <<"2">>, <<"3">>}

\* The column of the header that is named "Item", in the file as the
\* differ reads it (semicolon-separated).
ItemColumn(text) == index(SplitBy(Head(text), Semi), ItemCol)

\* The file with the "Item" field of data row i set to v[i], for every row
\* that has the field.
Revalued(text, v) ==
    <<Head(text)>> \o
    [i \in 1..(Len(text) - 1) |->
        LET fields == SplitBy(Tail(text)[i], Semi)
            c == ItemColumn(text)
        IN  IF Len(fields) >= c
            THEN Join([fields EXCEPT ![c] = v[i]], Semi)
            ELSE Tail(text)[i]]

InitDigest ==
    /\ \E text \in DigestFiles :
         /\ fs = write_file(EmptyDir, TARGET_FILENAME, text).f
         /\ age = write_file(EmptyDir, TARGET_FILENAME, text).a
    /\ now = 1
    /\ pc = "file"
    /\ call = NoCall
    /\ ever = {}
    /\ steps = 0
    /\ cycle = NoCycle

\* The two digests that manage_versioning compares: of the file at the
\* canonical path and of the variant at the temporary path.
Digests(op, variant) ==
    LET D == write_file(Dir, TEMP_FILENAME, variant)
    IN  /\ fs' = D.f
        /\ age' = D.a
        /\ call' = [After(call, op, {}) EXCEPT
                       !.new_md5 = calculate_sorted_md5(D.f[TEMP_FILENAME]),
                       !.old_md5 = calculate_sorted_md5(D.f[TARGET_FILENAME])]
        /\ pc' = "hashed"
        /\ steps' = steps + 1
        /\ UNCHANGED <<now, ever, cycle>>

\* The digest of the file and of a reordering of its data rows.
HashReordered ==
    /\ pc = "file"
    /\ \E p \in RowOrders(Len(fs[TARGET_FILENAME]) - 1) :
         Digests("md5_reordered", Reordered(fs[TARGET_FILENAME], p))

\* The digest of the file and of the file with other "Item" values.
HashRevalued ==
    /\ pc = "file"
    /\ ItemColumn(fs[TARGET_FILENAME]) # 0
    /\ \E v \in [1..(Len(fs[TARGET_FILENAME]) - 1) -> ItemValues] :
         Digests("md5_revalued", Revalued(fs[TARGET_FILENAME], v))

\* manage_versioning called on the variant, the new file.
AcceptVariant ==
    /\ pc = "hashed"
    /\ LET r == manage_versioning(Dir, now, {})
       IN  /\ fs' = r.D.f
           /\ age' = r.D.a
           /\ call' = [After(call, "accept", {}) EXCEPT
                          !.out = r.out, !.raised = r.raised,
                          !.new_md5 = call.new_md5, !.old_md5 = call.old_md5]
           /\ ever' = ever \cup CanonTexts(r.D.f)
    /\ pc' = "accepted"
    /\ steps' = steps + 1
    /\ UNCHANGED <<now, cycle>>

NextDigest == HashReordered \/ HashRevalued \/ AcceptVariant

SpecDigest == InitDigest /\ [][NextDigest]_vars

\* C6: a file and any reordering of its data rows have the same digest.
C6_DigestIgnoresRowOrder ==
    call.op = "md5_reordered" => call.new_md5 = call.old_md5

\* C13: a new file that differs from the canonical file in the order of its
\* data rows only is deleted by manage_versioning: the canonical file keeps
\* its content and no backup is made.
C13_ReorderedIsDiscarded ==
    (call.op = "accept" /\ call.prev_op = "md5_reordered")
        => /\ call.out = "DiscardedIdentical"
           /\ TEMP_FILENAME \notin DOMAIN fs
           /\ CanonTexts(fs) = CanonTexts(call.pre)
           /\ \A n \in DOMAIN fs : n[1] # "bak"

\* C7: a file whose header holds the "Item" column and the file with other
\* values in that column have the same digest.
C7_DigestIgnoresItem ==
    call.op = "md5_revalued" => call.new_md5 = call.old_md5

\* ------------------------------------------------------------------------
\* SpecDiff: compare_and_extract_diffs applied to a canonical file and a new
\* file, in a directory that holds nothing else
\* ------------------------------------------------------------------------

\* The greatest number of data rows of the canonical and of the new file.
MaxOldRows == 3
MaxNewRows == 2

\* Headers with the columns in another order, and without the identity column.
Hd == <<ItemCol, Semi, IdCol, Semi, NameCol>>
Hx == <<ItemCol, Semi, NameCol>>

\* Data rows: two identities, rows that differ in the "Item" field only or
\* in the name, and a row of one field.
DiffRows ==
    {Row3("1", "1", <<"x">>), Row3("1", "2", <<"x">>), Row3("1", "1", <<"y">>),
     Row3("2", "1", <<"x">>), <<"1">>}

OldRows == DiffRows \ {Row3("1", "2", <<"x">>)}

OldFiles == {<<H3>> \o rows : rows \in SeqsUpTo(OldRows, MaxOldRows)}

NewFiles == {<<h>> \o rows : h \in {H3, Hd, Hx}, rows \in SeqsUpTo(DiffRows, MaxNewRows)}

DiffFaults == {{}, {"wr_diff", "wr_del"}}

InitDiff ==
    /\ \E old \in OldFiles, new \in NewFiles :
         LET D == write_file(write_file(EmptyDir, TARGET_FILENAME, old),
                             TEMP_FILENAME, new)
         IN  fs = D.f /\ age = D.a
    /\ now = 1
    /\ pc = "new"
    /\ call = NoCall
    /\ ever = {}
    /\ steps = 0
    /\ cycle = NoCycle

\* The caller calls compare_and_extract_diffs on the new file.
Compare ==
    /\ pc = "new"
    /\ \E faults \in DiffFaults :
         LET r == compare_and_extract_diffs(Dir, now, faults)
         IN  /\ fs' = r.D.f
             /\ age' = r.D.a
             /\ call' = [After(call, "compare", faults) EXCEPT
                            !.diff = r.diff, !.del = r.del,
                            !.diff_rows = r.diff_rows, !.del_rows = r.del_rows,
                            !.compared = r.compared]
    /\ pc' = "compared"
    /\ steps' = steps + 1
    /\ UNCHANGED <<now, ever, cycle>>

NextDiff == Compare

SpecDiff == InitDiff /\ [][NextDiff]_vars

\* ------------------------------------------------------------------------
\* Claims checked under SpecDiff
\* ------------------------------------------------------------------------

\* The two files of the last call of compare_and_extract_diffs, read as the
\* function reads them: od and nd are the data rows of the old and of the new
\* file, oi and ni the positions of the identity column in the two headers,
\* it the position of "Item" in the header of the new file.
OldParsed == csv_reader(call.pre[TARGET_FILENAME], Semi)
NewParsed == csv_reader(call.pre[TEMP_FILENAME], Semi)
Compared ==
    [od |-> Tail(OldParsed), nd |-> Tail(NewParsed),
     oi |-> index(Head(OldParsed), IdCol),
     ni |-> index(Head(NewParsed), IdCol),
     it |-> index(Head(NewParsed), ItemCol)]

\* The old rows that have an identity, and the identities of the new rows.
OldPositions(c) == {i \in 1..Len(c.od) : Len(c.od[i]) >= c.oi}
NewIds(c) == {c.nd[i][c.ni] : i \in {j \in 1..Len(c.nd) : Len(c.nd[j]) >= c.ni}}

\* The old row of an identity: the last row of the old file that has it.
OldRowOf(c, id) ==
    c.od[CHOOSE i \in OldPositions(c) :
             /\ c.od[i][c.oi] = id
             /\ \A j \in OldPositions(c) : c.od[j][c.oi] = id => j <= i]

\* A row without its volatile field, the field at the position of "Item" in
\* the header of the new file (rows are compared by position).
NonVolatile(c, row) ==
    IF c.it # 0 /\ Len(row) >= c.it
    THEN [i \in 1..(Len(row) - 1) |-> IF i < c.it THEN row[i] ELSE row[i + 1]]
    ELSE row

AddedOrModified(c, row) ==
    /\ Len(row) >= c.ni
    /\ \/ \A i \in OldPositions(c) : c.od[i][c.oi] # row[c.ni]
       \/ NonVolatile(c, row) # NonVolatile(c, OldRowOf(c, row[c.ni]))

\* C8: a new file with the text of the canonical file, non-empty and with
\* the identity column, yields no added-or-modified row and no deleted row:
\* no path is returned and no audit file is written.
C8_DiffOfSameIsEmpty ==
    (/\ call.op = "compare"
     /\ call.pre[TEMP_FILENAME] = call.pre[TARGET_FILENAME]
     /\ Len(OldParsed) > 1
     /\ index(Head(OldParsed), IdCol) # 0)
        => /\ call.diff_rows = <<>>
           /\ call.del_rows = <<>>
           /\ ~call.diff
           /\ ~call.del
           /\ fs = call.pre

\* C9: the added-or-modified rows are exactly the rows of the new file whose
\* identity no old row has, or which differ from the old row of their
\* identity in a field other than the volatile one, in the order of the new
\* file.
C9_AddedOrModifiedExact ==
    (call.op = "compare" /\ call.compared)
        => LET c == Compared
           IN  call.diff_rows = SelectSeq(c.nd, LAMBDA row : AddedOrModified(c, row))

\* Two new rows of identities the old file has: the first differs from its
\* old row in the "Item" field only and is left out, the second is reported.
C9_Witness ==
    /\ call.op = "compare"
    /\ call.compared
    /\ LET c == Compared
       IN  /\ Len(c.nd) = 2
           /\ Len(call.diff_rows) = 1
           /\ call.diff_rows[1] = c.nd[2]
           /\ \E i \in OldPositions(c) :
                 /\ c.od[i][c.oi] = c.nd[1][c.ni]
                 /\ c.od[i] # c.nd[1]
                 /\ NonVolatile(c, c.od[i]) = NonVolatile(c, c.nd[1])
           /\ \E i \in OldPositions(c) : c.od[i][c.oi] = c.nd[2][c.ni]

\* The positions at which the old file first presents an identity that no
\* row of the new file has, in the order of the old file.
FirstOfDeleted(c) ==
    LET ids == NewIds(c)
        pos == OldPositions(c)
    IN  SelectSeq([i \in 1..Len(c.od) |-> i],
                  LAMBDA i : /\ i \in pos
                             /\ c.od[i][c.oi] \notin ids
                             /\ \A j \in pos :
                                   c.od[j][c.oi] = c.od[i][c.oi] => i <= j)

\* C10: the deleted rows are the old rows of the identities that no row of
\* the new file has, one row for each, in the order in which the old file
\* first presents those identities.
C10_DeletedExact ==
    (call.op = "compare" /\ call.compared)
        => LET c == Compared
               first == FirstOfDeleted(c)
               ids == NewIds(c)
           IN  /\ call.del_rows =
                    [k \in 1..Len(first) |-> OldRowOf(c, c.od[first[k]][c.oi])]
               /\ \A k \in 1..Len(call.del_rows) : call.del_rows[k][c.oi] \notin ids

\* Old identities 1, 2, 1 none of which the new file has: the deleted rows
\* are the last row of identity 1, then the row of identity 2.
C10_Witness ==
    /\ call.op = "compare"
    /\ call.compared
    /\ LET c == Compared
       IN  /\ Len(c.od) = 3
           /\ Len(call.del_rows) = 2
           /\ call.del_rows[1] = c.od[3]
           /\ call.del_rows[2] = c.od[2]
           /\ c.od[1] # c.od[3]

\* The rows r and o have the volatile field and agree in every other field.
SameButItem(c, r, o) ==
    /\ c.it # 0
    /\ Len(r) = Len(o)
    /\ Len(r) >= c.it
    /\ \A j \in 1..Len(r) : j # c.it => r[j] = o[j]

\* C23: a new row whose identity the old file has and which differs from
\* the old row of that identity in the "Item" field only is not among the
\* added-or-modified rows.
C23_ItemOnlyIsUnchanged ==
    (call.op = "compare" /\ call.compared)
        => LET c == Compared
           IN  \A i \in 1..Len(c.nd) :
                 (/\ Len(c.nd[i]) >= c.ni
                  /\ \E j \in OldPositions(c) : c.od[j][c.oi] = c.nd[i][c.ni]
                  /\ SameButItem(c, c.nd[i], OldRowOf(c, c.nd[i][c.ni])))
                    => \A k \in 1..Len(call.diff_rows) : call.diff_rows[k] # c.nd[i]

\* One new row, of an identity of the old file, with another "Item" value
\* than the old row: nothing is reported as added or modified.
C23_Witness ==
    /\ call.op = "compare"
    /\ call.compared
    /\ call.diff_rows = <<>>
    /\ LET c == Compared
       IN  /\ Len(c.nd) = 1
           /\ Len(c.nd[1]) >= c.ni
           /\ \E j \in OldPositions(c) : c.od[j][c.oi] = c.nd[1][c.ni]
           /\ SameButItem(c, c.nd[1], OldRowOf(c, c.nd[1][c.ni]))
           /\ c.nd[1][c.it] # OldRowOf(c, c.nd[1][c.ni])[c.it]

\* C19: a path returned by compare_and_extract_diffs is the path of a file
\* written by this call, with the rows that the call found.
C19_ReturnedPathIsWritten ==
    (pc = "compared" /\ call.op = "compare")
        => /\ call.diff =>
                /\ DiffName \in DOMAIN fs
                /\ fs[DiffName] = audit_text(call.diff_rows, Head(OldParsed))
           /\ call.del =>
                /\ DelName \in DOMAIN fs
                /\ fs[DelName] = audit_text(call.del_rows, Head(OldParsed))

\* ------------------------------------------------------------------------
\* SpecDiffAccept: the new file is handed to compare_and_extract_diffs and
\* then, as run_cycle does while success is True, to manage_versioning
\* ------------------------------------------------------------------------

\* if success: FileManager.manage_versioning(temp_path, ...), after the
\* comparison of the same new file.
AcceptCompared ==
    /\ pc = "compared"
    /\ LET r == manage_versioning(Dir, now, {})
       IN  /\ fs' = r.D.f
           /\ age' = r.D.a
           /\ call' = [After(call, "accept", {}) EXCEPT
                          !.out = r.out, !.raised = r.raised,
                          !.diff = call.diff, !.del = call.del,
                          !.diff_rows = call.diff_rows, !.del_rows = call.del_rows,
                          !.compared = call.compared]
           /\ ever' = ever \cup CanonTexts(r.D.f)
    /\ pc' = "accepted"
    /\ steps' = steps + 1
    /\ UNCHANGED <<now, cycle>>

NextDiffAccept == Compare \/ AcceptCompared

SpecDiffAccept == InitDiff /\ [][NextDiffAccept]_vars

max_files == 15

\* cleanup_old_files that keeps the least recently modified files.
cleanup_old_files_keeps_oldest(D, n) ==
    IF Len(D.a) <= n THEN D
    ELSE LET kept == SubSeq(D.a, 1, n)
         IN  [f |-> [m \in {kept[i] : i \in 1..n} |-> D.f[m]], a |-> kept]

\* FileManager.cleanup_old_files(folder, max_files): when the directory holds
\* more than max_files files, the least recently modified ones in excess are
\* deleted and the max_files most recently modified ones are kept.
cleanup_old_files(D, n) ==
    IF Len(D.a) <= n THEN D
    ELSE LET kept == SubSeq(D.a, Len(D.a) - n + 1, Len(D.a))
         IN  [f |-> [m \in {kept[i] : i \in 1..n} |-> D.f[m]], a |-> kept]

\* The reports that the ERP may serve: those of SpecAccept, and one whose
\* header has no identity column.
FileX == <<Hx, <<"1", Semi, "x">>>>
CycleFiles == {FileA, FileAr, FileB, FileX}

\* The audit files of a directory, with their texts.
AuditFiles(f) ==
    [n \in {m \in DOMAIN f :
               m[1] \in {"diff", "del", "diffbak", "delbak", "differr", "delerr"}}
        |-> f[n]]

\* The working directory is empty, or holds the canonical file of an earlier
\* run of the program.
Init ==
    /\ \E D \in {EmptyDir, write_file(EmptyDir, TARGET_FILENAME, FileA)} :
         fs = D.f /\ age = D.a
    /\ now = 1
    /\ pc = "loop"
    /\ call = NoCall
    /\ ever = CanonTexts(fs)
    /\ steps = 0
    /\ cycle = NoCycle

\* main() calls run_cycle(): bot.init_session() and bot.login(USER, PASS);
\* when one of them fails run_cycle returns False before its try block.
StartCycle ==
    /\ pc = "loop"
    /\ \E ok \in BOOLEAN :
         /\ cycle' = [NoCycle EXCEPT !.ciclo = cycle.ciclo,
                                     !.canon = CanonTexts(fs),
                                     !.arts = AuditFiles(fs),
                                     !.login = ok,
                                     !.result = IF ok THEN "none" ELSE "False"]
         /\ pc' = IF ok THEN "try" ELSE "sleep"
    /\ UNCHANGED <<fs, age, now, call, ever, steps>>

\* The download whose failure makes run_cycle return at once, not through
\* the finally block.
Download_failure_skips_finally ==
    /\ pc = "try"
    /\ \/ /\ cycle' = [cycle EXCEPT !.result = "False", !.download = TRUE]
          /\ pc' = "sleep"
          /\ UNCHANGED <<fs, age>>
       \/ \E text \in CycleFiles :
            LET D == write_file(Dir, TEMP_FILENAME, text)
            IN  /\ fs' = D.f
                /\ age' = D.a
                /\ cycle' = [cycle EXCEPT !.new = {text}, !.download = TRUE]
                /\ pc' = "downloaded"
    /\ UNCHANGED <<now, call, ever, steps>>

\* bot.download_report(..., output_filename=TEMP_FILENAME): None when the
\* request fails (run_cycle returns False through its finally block), or the
\* report written at the temporary path.
Download ==
    /\ pc = "try"
    /\ \/ /\ cycle' = [cycle EXCEPT !.result = "False", !.download = TRUE]
          /\ pc' = "finally"
          /\ UNCHANGED <<fs, age>>
       \/ \E text \in CycleFiles :
            LET D == write_file(Dir, TEMP_FILENAME, text)
            IN  /\ fs' = D.f
                /\ age' = D.a
                /\ cycle' = [cycle EXCEPT !.new = {text}, !.download = TRUE]
                /\ pc' = "downloaded"
    /\ UNCHANGED <<now, call, ever, steps>>

\* diff_paths = FileManager.compare_and_extract_diffs(temp_path, ...)
ExtractDiffs ==
    /\ pc = "downloaded"
    /\ \E faults \in DiffFaults :
         LET r == compare_and_extract_diffs(Dir, now, faults)
         IN  /\ fs' = r.D.f
             /\ age' = r.D.a
             /\ call' = [After(call, "compare", faults) EXCEPT
                            !.diff = r.diff, !.del = r.del,
                            !.diff_rows = r.diff_rows, !.del_rows = r.del_rows,
                            !.compared = r.compared]
             /\ cycle' = [cycle EXCEPT !.diff = r.diff, !.del = r.del]
    /\ pc' = "compared"
    /\ steps' = steps + 1
    /\ UNCHANGED <<now, ever>>

\* The update of the database attempted whatever the comparison returned.
UpdateDB_always ==
    /\ pc = "compared"
    /\ cycle' = [cycle EXCEPT !.db = "failed", !.result = "raised"]
    /\ pc' = "finally"
    /\ UNCHANGED <<fs, age, now, call, ever, steps>>

\* The failure of the update of the database not stopping the cycle: the
\* new file is handed to manage_versioning all the same.
UpdateDB_then_accepts ==
    /\ pc = "compared"
    /\ cycle' = [cycle EXCEPT !.db = IF cycle.diff \/ cycle.del
                                     THEN "failed" ELSE "skipped"]
    /\ pc' = "success"
    /\ UNCHANGED <<fs, age, now, call, ever, steps>>

\* if diff_paths['diff'] or diff_paths['del']: db = DBClient(DB_SERVER,
\* DB_NAME, DB_USER, DB_PASS, DB_DRIVER): DBClient.__init__ takes four
\* arguments besides self, the call with five raises TypeError, which leaves
\* the try block through finally.  Otherwise the database is skipped and
\* success stays True.
UpdateDB ==
    /\ pc = "compared"
    /\ IF cycle.diff \/ cycle.del
       THEN /\ cycle' = [cycle EXCEPT !.db = "failed", !.result = "raised"]
            /\ pc' = "finally"
       ELSE /\ cycle' = [cycle EXCEPT !.db = "skipped"]
            /\ pc' = "success"
    /\ UNCHANGED <<fs, age, now, call, ever, steps>>

\* if success: FileManager.manage_versioning(temp_path, ...)
Version ==
    /\ pc = "success"
    /\ \E faults \in AcceptFaults :
         LET r == manage_versioning(Dir, now, faults)
         IN  /\ fs' = r.D.f
             /\ age' = r.D.a
             /\ call' = [After(call, "accept", faults) EXCEPT
                            !.out = r.out, !.raised = r.raised,
                            !.new_md5 = calculate_sorted_md5(fs[TEMP_FILENAME]),
                            !.old_md5 = IF TARGET_FILENAME \in DOMAIN fs
                                        THEN calculate_sorted_md5(fs[TARGET_FILENAME])
                                        ELSE <<>>]
             /\ ever' = ever \cup CanonTexts(r.D.f)
             /\ cycle' = [cycle EXCEPT !.accepted = TRUE,
                                       !.result = IF r.raised THEN "raised" ELSE "True"]
    /\ pc' = "finally"
    /\ steps' = steps + 1
    /\ UNCHANGED now

\* The exception of a cycle not caught by main(): the process ends.
Finally_exception_ends ==
    /\ pc = "finally"
    /\ LET D == cleanup_old_files(Dir, max_files)
       IN  fs' = D.f /\ age' = D.a
    /\ cycle' = [cycle EXCEPT !.logout = TRUE, !.swept = TRUE]
    /\ pc' = IF cycle.result = "raised" THEN "stopped" ELSE "sleep"
    /\ UNCHANGED <<now, call, ever, steps>>

\* finally: bot.logout(); FileManager.cleanup_old_files("ReporteSabana",
\* max_files=15).  Then run_cycle returns, or the exception reaches main(),
\* which logs it; main() goes on to sleep.
Finally ==
    /\ pc = "finally"
    /\ LET D == cleanup_old_files(Dir, max_files)
       IN  fs' = D.f /\ age' = D.a
    /\ cycle' = [cycle EXCEPT !.logout = TRUE, !.swept = TRUE]
    /\ pc' = "sleep"
    /\ UNCHANGED <<now, call, ever, steps>>

\* time.sleep(intervalo * 60); ciclo += 1
Sleep ==
    /\ pc = "sleep"
    /\ now < MaxTime
    /\ now' = now + 1
    /\ cycle' = [cycle EXCEPT !.ciclo = @ + 1]
    /\ pc' = "loop"
    /\ UNCHANGED <<fs, age, call, ever, steps>>

\* KeyboardInterrupt during time.sleep: sys.exit(0)
Interrupt ==
    /\ pc = "sleep"
    /\ pc' = "stopped"
    /\ UNCHANGED <<fs, age, now, call, ever, steps, cycle>>

Next ==
    \/ StartCycle
    \/ Download
    \/ ExtractDiffs
    \/ UpdateDB
    \/ Version
    \/ Finally
    \/ Sleep
    \/ Interrupt
    \/ Tick

Spec == Init /\ [][Next]_vars

\* SpecLoop: the loop of main() as it is scheduled.  main() is one thread
\* that runs each statement when it is reached, every call returns or raises
\* (the requests have a timeout), and the clock advances during the wait
\* only; the user may interrupt the wait or not.
NextLoop ==
    \/ StartCycle
    \/ Download
    \/ ExtractDiffs
    \/ UpdateDB
    \/ Version
    \/ Finally
    \/ Sleep
    \/ Interrupt

\* Control does not stay for ever before the call of
\* compare_and_extract_diffs nor before the call of manage_versioning: the
\* weak fairness of ExtractDiffs and of Version, which are enabled exactly
\* at these two positions and leave them.
CallsReturn ==
    /\ []<>(pc # "downloaded")
    /\ []<>(pc # "success")

SpecLoop ==
    /\ Init
    /\ [][NextLoop]_vars
    /\ WF_vars(StartCycle)
    /\ WF_vars(Download)
    /\ WF_vars(UpdateDB)
    /\ WF_vars(Finally)
    /\ WF_vars(Sleep)
    /\ CallsReturn

\* ------------------------------------------------------------------------
\* Claims checked under Spec
\* ------------------------------------------------------------------------

\* C2: when the update of the database fails in a cycle, the cycle ends with
\* the quarantine operations called and manage_versioning not called, the
\* canonical file as it was at the start of the cycle, and the new file
\* under an _ERR_ name instead of the temporary path.
C2_FailedUpdateQuarantines ==
    (pc = "sleep" /\ cycle.db = "failed")
        => /\ cycle.quarantined
           /\ ~cycle.accepted
           /\ CanonTexts(fs) = cycle.canon
           /\ TEMP_FILENAME \notin DOMAIN fs
           /\ \E n \in DOMAIN fs : n[1] = "err" /\ {fs[n]} = cycle.new

LacksId(text) == index(Head(csv_reader(text, Semi)), IdCol) = 0

\* C3: when a canonical file exists and the header of the new file (or of
\* the canonical file) has no identity column, the cycle ends with no path
\* returned by the comparison, the audit files as they were, and the
\* canonical file as it was at the start of the cycle.
C3_NoIdentityLeavesCanonical ==
    (/\ pc = "sleep"
     /\ cycle.new # {}
     /\ cycle.canon # {}
     /\ \E text \in cycle.new \cup cycle.canon : LacksId(text))
        => /\ ~cycle.diff
           /\ ~cycle.del
           /\ AuditFiles(fs) = cycle.arts
           /\ CanonTexts(fs) = cycle.canon

\* The three outcomes of the new file of a finished cycle.
Promoted ==
    /\ cycle.accepted
    /\ ~call.raised
    /\ call.out \in {"Created", "Replaced"}
    /\ CanonTexts(fs) = cycle.new
    /\ TEMP_FILENAME \notin DOMAIN fs

Discarded ==
    /\ cycle.accepted
    /\ ~call.raised
    /\ call.out = "DiscardedIdentical"
    /\ TEMP_FILENAME \notin DOMAIN fs

Quarantined ==
    /\ cycle.quarantined
    /\ TEMP_FILENAME \notin DOMAIN fs
    /\ \E n \in DOMAIN fs : n[1] = "err" /\ {fs[n]} = cycle.new

\* C11: the new file of a finished cycle is promoted to the canonical path,
\* or deleted as identical to the canonical file, or renamed to an _ERR_
\* name: one of the three, and one only.
C11_OneOutcome ==
    (pc = "sleep" /\ cycle.new # {})
        => /\ Promoted \/ Discarded \/ Quarantined
           /\ ~(Promoted /\ Discarded)
           /\ ~(Promoted /\ Quarantined)
           /\ ~(Discarded /\ Quarantined)

\* C16: in a cycle that starts without a canonical file the comparison
\* returns no path and writes no audit file, the database is not updated,
\* and manage_versioning, called next, creates the canonical file from the
\* new file.
C16_NoBaselineNoDiff ==
    (/\ cycle.canon = {}
     /\ cycle.new # {}
     /\ pc \in {"compared", "success", "finally", "sleep"})
        => /\ ~cycle.diff
           /\ ~cycle.del
           /\ AuditFiles(fs) = cycle.arts
           /\ cycle.db # "failed"
           /\ pc \in {"success", "finally", "sleep"} => cycle.db = "skipped"
           /\ pc \in {"finally", "sleep"} =>
                 /\ cycle.accepted
                 /\ call.out = "Created"
                 /\ ~call.raised => CanonTexts(fs) = cycle.new

C16_Witness ==
    /\ pc = "sleep"
    /\ cycle.canon = {}
    /\ cycle.new # {}
    /\ cycle.db = "skipped"
    /\ call.op = "accept"
    /\ call.out = "Created"
    /\ CanonTexts(fs) = cycle.new

\* C17: every cycle ends with cleanup_old_files called, whatever its outcome.
C17_EveryCycleSwept ==
    pc = "sleep" => cycle.swept

C27_ReplacedOnlyAfterUpdate ==
    (cycle.accepted /\ call.op = "accept" /\ call.out = "Replaced" /\ ~call.raised)
        => /\ cycle.diff \/ cycle.del
           /\ cycle.db = "updated"

\* C29: a cycle in which bot.init_session() and bot.login() returned True
\* does not end without bot.logout() called, however it ends; a cycle in
\* which one of them returned False calls no bot.download_report().
C29_LogoutAfterLogin ==
    /\ (pc \in {"sleep", "loop", "stopped"} /\ cycle.login) => cycle.logout
    /\ ~cycle.login => (~cycle.download /\ cycle.new = {})

\* The end of a cycle that logged in and then raised.
C29_Witness ==
    /\ pc = "sleep"
    /\ cycle.login
    /\ cycle.download
    /\ cycle.logout
    /\ cycle.result = "raised"

\* C26: a cycle that has begun reaches the wait of main() whether it returns
\* True, returns False or raises; from the wait the loop goes on to the next
\* cycle unless the user interrupts; the process stops from the wait only.
C26_LoopGoesOn ==
    /\ [][pc' = "stopped" => pc = "sleep"]_vars
    /\ [](pc = "sleep" => cycle.result \in {"True", "False", "raised"})
    /\ (pc = "loop") ~> (pc = "sleep")
    /\ (pc = "sleep" /\ now < MaxTime) ~> (pc \in {"loop", "stopped"})

\* The second cycle about to begin after a first cycle that raised.
C26_Witness ==
    /\ pc = "loop"
    /\ cycle.ciclo = 2
    /\ cycle.result = "raised"
    /\ cycle.db = "failed"

\* ------------------------------------------------------------------------
\* SpecAudit: row lists written one after the other to the audit file
\* ReporteSabana_Diff.csv, as compare_and_extract_diffs writes diff_rows
\* ------------------------------------------------------------------------

MaxWrites == 3

\* The header and the row lists handed to _save_audit_file, as csv.reader
\* yields them.
AuditHeader == Head(csv_reader(<<H3>>, Semi))
AuditRow(id, name) == Head(csv_reader(<<Row3(id, "1", name)>>, Semi))
AuditRowLists ==
    {<<>>, <<AuditRow("1", <<"x">>)>>, <<AuditRow("1", <<"y">>)>>,
     <<AuditRow("1", <<"x">>), AuditRow("2", <<"x">>)>>}

AuditFaults == {{}, {"rot_diff"}, {"wr_diff"}, {"rot_diff", "wr_diff"}}

InitAudit ==
    /\ fs = EmptyDir.f
    /\ age = <<>>
    /\ now = 1
    /\ pc = "audit"
    /\ call = NoCall
    /\ ever = {}
    /\ steps = 0
    /\ cycle = NoCycle

\* if diff_rows: FileManager._save_audit_file(diff_rows, target_dir,
\* diff_name, header); paths['diff'] = ...   ever collects the texts that the
\* audit file has held.
WriteAudit ==
    /\ pc = "audit"
    /\ steps < MaxWrites
    /\ \E rows \in AuditRowLists, faults \in AuditFaults :
         LET D == save_audit_file(Dir, rows, DiffName, AuditHeader, now,
                                  "rot_diff" \in faults, "wr_diff" \in faults)
         IN  /\ fs' = D.f
             /\ age' = D.a
             /\ call' = [After(call, "audit", faults) EXCEPT
                            !.diff = (rows # <<>>), !.diff_rows = rows]
             /\ ever' = ever \cup (IF DiffName \in DOMAIN D.f
                                   THEN {D.f[DiffName]} ELSE {})
    /\ steps' = steps + 1
    /\ UNCHANGED <<now, pc, cycle>>

NextAudit == WriteAudit \/ Tick

SpecAudit == InitAudit /\ [][NextAudit]_vars

\* C14: a write of an empty row list leaves the directory as it was (an
\* existing audit file keeps its name and its text) and yields no path.
C14_EmptyWriteChangesNothing ==
    (call.op = "audit" /\ call.diff_rows = <<>>)
        => /\ fs = call.pre
           /\ ~call.diff

\* An empty row list written while the audit file of an earlier write
\* exists.
C14_Witness ==
    /\ call.op = "audit"
    /\ call.diff_rows = <<>>
    /\ call.prev_op = "audit"
    /\ DiffName \in DOMAIN call.pre
    /\ DiffName \in DOMAIN fs
    /\ fs[DiffName] = call.pre[DiffName]

\* C24: a write of a non-empty row list before which the audit file exists
\* and whose rotation rename fails is carried out all the same: the audit
\* file then holds the header followed by the new rows.
C24_WriteAfterFailedRotation ==
    (/\ call.op = "audit"
     /\ call.diff_rows # <<>>
     /\ DiffName \in DOMAIN call.pre
     /\ "rot_diff" \in call.faults
     /\ "wr_diff" \notin call.faults)
        => /\ DiffName \in DOMAIN fs
           /\ fs[DiffName] = audit_text(call.diff_rows, AuditHeader)

\* A failed rotation followed by the write of rows other than those that
\* the audit file held.
C24_Witness ==
    /\ call.op = "audit"
    /\ call.diff_rows # <<>>
    /\ DiffName \in DOMAIN call.pre
    /\ call.faults = {"rot_diff"}
    /\ fs[DiffName] = audit_text(call.diff_rows, AuditHeader)
    /\ fs[DiffName] # call.pre[DiffName]
    /\ \A n \in DOMAIN fs : n[1] # "diffbak"

\* C15: every text that the audit file has held is still in the directory,
\* in the audit file or in one of its timestamped copies.
C15_AuditTextsKept ==
    \A text \in ever :
        \E n \in DOMAIN fs : n[1] \in {"diff", "diffbak"} /\ fs[n] = text

\* ------------------------------------------------------------------------
\* SpecSweep: cleanup_old_files applied to a directory
\* ------------------------------------------------------------------------

\* The greatest max_files of SpecSweep.
MaxKeep == 3

SweepNames == {TARGET_FILENAME, TEMP_FILENAME, DiffName, <<"bak", 1>>}

\* The directories of SpecSweep: some of the names, modified in any order.
SweepOrders ==
    {a \in SeqsUpTo(SweepNames, Cardinality(SweepNames)) :
        \A i, j \in 1..Len(a) : a[i] = a[j] => i = j}

InitSweep ==
    /\ \E a \in SweepOrders :
         /\ age = a
         /\ fs = [n \in {a[i] : i \in 1..Len(a)} |-> <<H3>>]
    /\ now = 1
    /\ pc = "unswept"
    /\ call = NoCall
    /\ ever = {}
    /\ steps = 0
    /\ cycle = NoCycle

\* FileManager.cleanup_old_files(folder, max_files=n)
Sweep ==
    /\ pc = "unswept"
    /\ \E n \in 1..MaxKeep :
         LET D == cleanup_old_files(Dir, n)
         IN  /\ fs' = D.f
             /\ age' = D.a
             /\ call' = [After(call, "sweep", {}) EXCEPT !.max_files = n]
    /\ pc' = "swept"
    /\ steps' = steps + 1
    /\ UNCHANGED <<now, ever, cycle>>

NextSweep == Sweep

SpecSweep == InitSweep /\ [][NextSweep]_vars

\* The position of a file in the order of modification before the sweep.
AgeBefore(n) == CHOOSE i \in 1..Len(call.pre_age) : call.pre_age[i] = n

\* C18: a sweep of more than max_files files leaves max_files of them, each
\* with its text and modified after every deleted file; a sweep of at most
\* max_files files leaves the directory as it was.
C18_SweepKeepsNewest ==
    call.op = "sweep" =>
        IF Len(call.pre_age) > call.max_files
        THEN /\ Cardinality(DOMAIN fs) = call.max_files
             /\ DOMAIN fs \subseteq DOMAIN call.pre
             /\ \A kept \in DOMAIN fs :
                   /\ fs[kept] = call.pre[kept]
                   /\ \A deleted \in DOMAIN call.pre \ DOMAIN fs :
                         AgeBefore(kept) > AgeBefore(deleted)
        ELSE fs = call.pre /\ age = call.pre_age

C18_Witness ==
    /\ call.op = "sweep"
    /\ call.max_files = 2
    /\ Len(call.pre_age) = 4
    /\ Cardinality(DOMAIN fs) = 2

\* ------------------------------------------------------------------------
\* SpecCrash: the process is stopped inside manage_versioning and started
\* again; the cycles of the new process run on the directory that was left
\* ------------------------------------------------------------------------

\* The points of manage_versioning at which the process may stop: before the
\* first change of the directory, between os.rename(final_path, backup_path)
\* and shutil.move(new_file_path, final_path), and after the last change.
CrashPoints == {"before", "between", "after"}

\* The directory that manage_versioning leaves when the process stops at the
\* point at.
manage_versioning_stopped(D, t, at) ==
    LET r == manage_versioning(D, t, {})
    IN  CASE at = "before" -> D
          [] at = "between" -> rename_file(D, TARGET_FILENAME,
                                           backup_name(TARGET_FILENAME, t))
          [] at = "after" -> r.D

\* The process stops inside the call of manage_versioning of run_cycle (a
\* KeyboardInterrupt is raised again by main(), a kill ends the process at
\* once) and is started again: main() begins with ciclo = 1.
Killed ==
    /\ pc = "success"
    /\ call.crash.at = "none"
    /\ \E at \in CrashPoints :
         /\ at = "between" => manage_versioning(Dir, now, {}).out = "Replaced"
         /\ LET D == manage_versioning_stopped(Dir, now, at)
            IN  /\ fs' = D.f
                /\ age' = D.a
                /\ ever' = ever \cup CanonTexts(D.f)
         /\ call' = [After(call, "killed", {}) EXCEPT
                        !.out = at,
                        !.crash = [at |-> at, canon |-> CanonTexts(fs)]]
    /\ cycle' = NoCycle
    /\ pc' = "loop"
    /\ steps' = steps + 1
    /\ UNCHANGED now

NextCrash ==
    \/ StartCycle
    \/ Download
    \/ ExtractDiffs
    \/ UpdateDB
    \/ Version
    \/ Killed
    \/ Finally
    \/ Sleep
    \/ Interrupt
    \/ Tick

SpecCrash == Init /\ [][NextCrash]_vars

\* The end of the first cycle of the process started after the stop, a
\* cycle that downloaded a new file and met no failure of the filesystem.
AfterCrashCycle ==
    /\ pc = "sleep"
    /\ call.crash.at # "none"
    /\ cycle.ciclo = 1
    /\ cycle.new # {}
    /\ cycle.accepted => (call.faults = {} /\ ~call.raised)

\* C21: wherever the process was stopped inside manage_versioning, the next
\* cycle with a new file ends with a file at the canonical path and with the
\* text that was canonical before the stop still in the directory.
C21_NextCycleAfterCrash ==
    AfterCrashCycle
        => /\ TARGET_FILENAME \in DOMAIN fs
           /\ \A text \in call.crash.canon : \E n \in DOMAIN fs : fs[n] = text

\* The same when the backup made by the next cycle takes a name that no file
\* had.
C21_FreshBackupName ==
    (/\ AfterCrashCycle
     /\ (cycle.accepted /\ call.out = "Replaced")
            => Backups(fs) \ Backups(call.pre) # {})
        => /\ TARGET_FILENAME \in DOMAIN fs
           /\ \A text \in call.crash.canon : \E n \in DOMAIN fs : fs[n] = text

\* ------------------------------------------------------------------------
\* SpecQuarantine: a caller has audit files written and hands a list of
\* their paths to rename_to_error, several times in one working directory
\* ------------------------------------------------------------------------

MaxQuarantines == 2

\* The rows of the audit files of SpecQuarantine.
QuarantineDiffRows == {<<>>, <<AuditRow("1", <<"x">>)>>, <<AuditRow("1", <<"y">>)>>}
QuarantineDelRows == {<<>>, <<AuditRow("2", <<"x">>)>>}

QuarantineFaults == {{}, {"err_diff"}, {"err_del"}, {"err_diff", "err_del"}}

\* The working directory holds a canonical file and a new file.
InitQuarantine ==
    /\ LET D == write_file(write_file(EmptyDir, TARGET_FILENAME, FileA),
                           TEMP_FILENAME, FileB)
       IN  fs = D.f /\ age = D.a
    /\ now = 1
    /\ pc = "idle"
    /\ call = NoCall
    /\ ever = {}
    /\ steps = 0
    /\ cycle = NoCycle

\* The audit files are written as compare_and_extract_diffs writes them.
Produce ==
    /\ pc = "idle"
    /\ steps < MaxQuarantines
    /\ \E diff_rows \in QuarantineDiffRows, del_rows \in QuarantineDelRows :
         LET D1 == save_audit_file(Dir, diff_rows, DiffName, AuditHeader, now,
                                   FALSE, FALSE)
             D2 == save_audit_file(D1, del_rows, DelName, AuditHeader, now,
                                   FALSE, FALSE)
         IN  fs' = D2.f /\ age' = D2.a
    /\ pc' = "produced"
    /\ UNCHANGED <<now, call, ever, steps, cycle>>

\* FileManager.rename_to_error(files_to_flag): the list holds the diff path,
\* the del path, both or none, whether or not the files exist.
Quarantine ==
    /\ pc = "produced"
    /\ \E has_diff \in BOOLEAN, has_del \in BOOLEAN, faults \in QuarantineFaults :
         LET D == rename_to_error(Dir, has_diff, has_del, now, faults)
         IN  /\ fs' = D.f
             /\ age' = D.a
             /\ call' = [After(call, "quarantine", faults) EXCEPT
                            !.diff = has_diff, !.del = has_del]
    /\ pc' = "idle"
    /\ steps' = steps + 1
    /\ UNCHANGED <<now, ever, cycle>>

NextQuarantine == Produce \/ Quarantine \/ Tick

SpecQuarantine == InitQuarantine /\ [][NextQuarantine]_vars

\* The paths of the list of the last call that exist and whose rename does
\* not fail.
Flagged ==
    {n \in {DiffName, DelName} :
        /\ n \in DOMAIN call.pre
        /\ (n = DiffName) => (call.diff /\ "err_diff" \notin call.faults)
        /\ (n = DelName) => (call.del /\ "err_del" \notin call.faults)}

ErrKind(n) == error_name(n, 0)[1]

\* The files of the list, after the last call of rename_to_error: each one
\* that exists and whose rename succeeds is under an _ERR_ name with its
\* text and no longer under its own name.
FlaggedAreRenamed ==
    \A n \in Flagged :
        /\ n \notin DOMAIN fs
        /\ \E m \in DOMAIN fs : m[1] = ErrKind(n) /\ fs[m] = call.pre[n]

\* C25: rename_to_error renames the existing files of its list to _ERR_
\* names, skips the paths that do not exist, does not raise when a rename
\* fails, and leaves every other file of the directory, the canonical file
\* among them, with its name and its text.
C25_QuarantineFrame ==
    (pc = "idle" /\ call.op = "quarantine")
        => /\ FlaggedAreRenamed
           /\ ~call.raised
           /\ \A n \in DOMAIN call.pre \ Flagged :
                 n \in DOMAIN fs /\ fs[n] = call.pre[n]
           /\ \A n \in DOMAIN fs :
                 n \in DOMAIN call.pre \/ n[1] \in {"differr", "delerr"}

\* The same for the calls that replace no file.
C25_FreshErrName ==
    (/\ pc = "idle"
     /\ call.op = "quarantine"
     /\ Cardinality(DOMAIN fs) = Cardinality(DOMAIN call.pre))
        => /\ FlaggedAreRenamed
           /\ ~call.raised
           /\ \A n \in DOMAIN call.pre \ Flagged :
                 n \in DOMAIN fs /\ fs[n] = call.pre[n]
           /\ \A n \in DOMAIN fs :
                 n \in DOMAIN call.pre \/ n[1] \in {"differr", "delerr"}

====
